---- MODULE Spec2Model ----
(***************************************************************************)
(* A model of script/systemm_monitor.py: the SystemHealthMonitor class     *)
(* (threshold configuration, metric collection, threshold evaluation,      *)
(* alert dispatch, report generation) and the run loop of main().          *)
(*                                                                         *)
(* Numbers.  Percentages are whole-number floats (80 stands for 80.0), on  *)
(* which the ':.1f' format is exact.  Sizes that psutil reports in bytes   *)
(* are counted in MiB (2^20 bytes), so that they fit TLC's integers; the   *)
(* usages drawn below make used/total*100 a whole number.                  *)
(***************************************************************************)
EXTENDS Integers, Sequences, FiniteSets

(***************************************************************************)
(* Bounds of the model.                                                    *)
(***************************************************************************)
MaxMounts == 2      \* length of the list psutil.disk_partitions() returns
MaxCycles == 2      \* cycles a continuous run starts before the model stops waking it
MaxProcs == 3       \* length of the process table psutil.process_iter() walks
MaxLimit == 2       \* largest limit handed to get_top_processes
TicksPerSecond == 2 \* clock readings per second of wall-clock time
MaxTick == 3        \* last clock reading

(***************************************************************************)
(* Python values.                                                          *)
(***************************************************************************)
NoneVal == -1       \* Python's None where a number may stand (psutil's ad_value)

EmptyDict == [k \in {} |-> 0]

\* dict.get(key, default)
DictGet(d, key, default) == IF key \in DOMAIN d THEN d[key] ELSE default

\* dict.update gone wrong: a key the dict already holds keeps its old value
DictUpdateKeepFirst(d, other) ==
    [k \in DOMAIN d \cup DOMAIN other |-> IF k \in DOMAIN d THEN d[k] ELSE other[k]]

\* dict.update(other): the keys of other are overlaid, every other key is kept
DictUpdate(d, other) ==
    [k \in DOMAIN d \cup DOMAIN other |-> IF k \in DOMAIN other THEN other[k] ELSE d[k]]

\* x or 0
OrZero(x) == IF x = NoneVal THEN 0 ELSE x

Min(a, b) == IF a <= b THEN a ELSE b

\* seq[:n] for n >= 0
Take(seq, n) == SubSeq(seq, 1, Min(n, Len(seq)))

IsPrefix(s, t) == Len(s) <= Len(t) /\ SubSeq(t, 1, Len(s)) = s

\* All sequences over S of length at most n
RECURSIVE SeqsUpTo(_, _)
SeqsUpTo(S, n) ==
    IF n = 0 THEN {<<>>}
    ELSE LET shorter == SeqsUpTo(S, n - 1)
         IN  shorter \cup {Append(s, x) : s \in {t \in shorter : Len(t) = n - 1}, x \in S}

(***************************************************************************)
(* __init__: the thresholds.                                               *)
(***************************************************************************)
Keys == {"cpu_percent", "memory_percent", "disk_percent", "max_processes"}

DefaultThresholds ==
    [cpu_percent |-> 80, memory_percent |-> 85, disk_percent |-> 90, max_processes |-> 300]

\* The value a configuration file gives a key, when it names the key
Override ==
    [cpu_percent |-> 81, memory_percent |-> 86, disk_percent |-> 95, max_processes |-> 301]

\* The "thresholds" objects a configuration file may hold: any subset of the keys
ThresholdObjects == {[k \in S |-> Override[k]] : S \in SUBSET Keys}

\* monitor_config.json: absent, not JSON, or a JSON object with or without "thresholds"
ConfigFiles ==
    {[exists |-> FALSE], [exists |-> TRUE, json |-> "malformed"]}
    \cup {[exists |-> TRUE, json |-> "object", config |-> EmptyDict]}
    \cup {[exists |-> TRUE, json |-> "object", config |-> [thresholds |-> t]] :
            t \in ThresholdObjects}

LoadThresholds(file) ==
    IF ~file.exists THEN [raised |-> "", thresholds |-> DefaultThresholds]
    ELSE IF file.json = "malformed" THEN [raised |-> "JSONDecodeError"]
    ELSE [raised |-> "",
          thresholds |-> DictUpdate(DefaultThresholds,
                                    DictGet(file.config, "thresholds", EmptyDict))]

(***************************************************************************)
(* bytes_to_gb: round(bytes / 1024**3, 2), on a size in MiB, as hundredths *)
(* of a GB, rounding half to even.                                         *)
(***************************************************************************)
bytes_to_gb(mib) ==
    LET q == (mib * 100) \div 1024
        r == (mib * 100) % 1024
    IN  IF r > 512 \/ (r = 512 /\ q % 2 = 1) THEN q + 1 ELSE q

(***************************************************************************)
(* get_memory_usage.                                                       *)
(***************************************************************************)
MemoryReadings ==
    {[percent |-> 85, used |-> 6963, total |-> 8192, available |-> 1229],
     [percent |-> 86, used |-> 7045, total |-> 8192, available |-> 1147]}

get_memory_usage(memory) ==
    [percent |-> memory.percent,
     used |-> bytes_to_gb(memory.used),
     total |-> bytes_to_gb(memory.total),
     available |-> bytes_to_gb(memory.available)]

(***************************************************************************)
(* get_disk_usage.  A partition is its mountpoint and what                 *)
(* psutil.disk_usage does there: it raises, or returns used/total/free.    *)
(* disk_info is a dict: a sequence of entries in insertion order, one per  *)
(* key.                                                                    *)
(***************************************************************************)
Mounts == {"/", "/data"}

UsageOutcomes ==
    {[err |-> "PermissionError"], [err |-> "OSError"],
     [err |-> "", used |-> 0, total |-> 0, free |-> 0],
     [err |-> "", used |-> 92160, total |-> 102400, free |-> 10240],
     [err |-> "", used |-> 97280, total |-> 102400, free |-> 5120]}

Partitions == {[mountpoint |-> m, usage |-> u] : m \in Mounts, u \in UsageOutcomes}

\* d[key] = value: a new key goes last, a known key keeps its place
RECURSIVE DiskSet(_, _)
DiskSet(d, entry) ==
    IF d = <<>> THEN <<entry>>
    ELSE IF Head(d).mount = entry.mount THEN <<entry>> \o Tail(d)
    ELSE <<Head(d)>> \o DiskSet(Tail(d), entry)

DiskEntry(partition) ==
    [mount |-> partition.mountpoint,
     percent |-> (partition.usage.used * 100) \div partition.usage.total,
     used |-> bytes_to_gb(partition.usage.used),
     total |-> bytes_to_gb(partition.usage.total),
     free |-> bytes_to_gb(partition.usage.free)]

\* The loop of get_disk_usage from its k-th partition on, disk_info built so far
RECURSIVE DiskLoop(_, _, _)
DiskLoop(partitions, k, disk_info) ==
    IF k > Len(partitions) THEN [raised |-> "", disk_info |-> disk_info]
    ELSE LET p == partitions[k]
         IN  IF p.usage.err = "PermissionError" THEN DiskLoop(partitions, k + 1, disk_info)
             ELSE IF p.usage.err # "" THEN [raised |-> p.usage.err]
             ELSE IF p.usage.total = 0 THEN [raised |-> "ZeroDivisionError"]
             ELSE DiskLoop(partitions, k + 1, DiskSet(disk_info, DiskEntry(p)))

get_disk_usage(partitions) == DiskLoop(partitions, 1, <<>>)

(***************************************************************************)
(* get_top_processes.  The process table is what psutil.process_iter       *)
(* yields: for each process, reading proc.info raises or gives its info.   *)
(***************************************************************************)
DefaultLimit == 5

ProcReadings ==
    {[err |-> "NoSuchProcess"], [err |-> "AccessDenied"]}
    \cup {[err |-> "", cpu_percent |-> c] : c \in {NoneVal, 0, 1, 2}}

\* The k-th process of a table has pid k
ProcEntry(k, reading) ==
    IF reading.err # "" THEN [err |-> reading.err, pid |-> k]
    ELSE [err |-> "", pid |-> k,
          info |-> [pid |-> k, name |-> "proc", cpu_percent |-> reading.cpu_percent,
                    memory_percent |-> reading.cpu_percent]]

ProcTablesUpTo(n) ==
    {[k \in 1..Len(s) |-> ProcEntry(k, s[k])] : s \in SeqsUpTo(ProcReadings, n)}

\* processes.append(proc.info) for every process whose info can be read
RECURSIVE ReadProcesses(_)
ReadProcesses(table) ==
    IF table = <<>> THEN <<>>
    ELSE IF Head(table).err # "" THEN ReadProcesses(Tail(table))
    ELSE <<Head(table).info>> \o ReadProcesses(Tail(table))

\* key=lambda x: x['cpu_percent'] or 0
SortKey(x) == OrZero(x.cpu_percent)

\* An insertion that is not stable: x goes in front of the elements with its own key
RECURSIVE InsertDescendingBeforeEqual(_, _)
InsertDescendingBeforeEqual(sorted, x) ==
    IF sorted = <<>> THEN <<x>>
    ELSE IF SortKey(Head(sorted)) > SortKey(x)
         THEN <<Head(sorted)>> \o InsertDescendingBeforeEqual(Tail(sorted), x)
         ELSE <<x>> \o sorted

\* x goes behind every element whose key is at least its own
RECURSIVE InsertDescending(_, _)
InsertDescending(sorted, x) ==
    IF sorted = <<>> THEN <<x>>
    ELSE IF SortKey(Head(sorted)) >= SortKey(x)
         THEN <<Head(sorted)>> \o InsertDescending(Tail(sorted), x)
         ELSE <<x>> \o sorted

\* sorted(processes, key=..., reverse=True): descending, equal keys in their first order
RECURSIVE SortedDescending(_, _)
SortedDescending(processes, k) ==
    IF k = 0 THEN <<>>
    ELSE InsertDescending(SortedDescending(processes, k - 1), processes[k])

get_top_processes(table, limit) ==
    LET processes == ReadProcesses(table)
    IN  Take(SortedDescending(processes, Len(processes)), limit)

(***************************************************************************)
(* check_thresholds.  An alert is the text of its f-string: which check    *)
(* wrote it, the mount it names (disk alerts only), the value and the      *)
(* threshold it embeds.                                                    *)
(***************************************************************************)
Alert(check, mount, value, threshold) ==
    [check |-> check, mount |-> mount, value |-> value, threshold |-> threshold]

\* The test with >= for >: a value equal to its threshold alerts
ExceedsOrEqual(value, threshold) == value >= threshold

\* The test every check applies to its value
Exceeds(value, threshold) == value > threshold

RECURSIVE DiskAlerts(_, _)
DiskAlerts(disk, th) ==
    IF disk = <<>> THEN <<>>
    ELSE (IF Exceeds(Head(disk).percent, th["disk_percent"])
          THEN <<Alert("disk", Head(disk).mount, Head(disk).percent, th["disk_percent"])>>
          ELSE <<>>)
         \o DiskAlerts(Tail(disk), th)

\* The checks in another order: the process count first
check_thresholds_process_first(metrics, th) ==
    (IF Exceeds(metrics.process_count, th["max_processes"])
     THEN <<Alert("process", "", metrics.process_count, th["max_processes"])>> ELSE <<>>)
    \o (IF Exceeds(metrics.cpu_percent, th["cpu_percent"])
        THEN <<Alert("cpu", "", metrics.cpu_percent, th["cpu_percent"])>> ELSE <<>>)
    \o (IF Exceeds(metrics.memory.percent, th["memory_percent"])
        THEN <<Alert("memory", "", metrics.memory.percent, th["memory_percent"])>> ELSE <<>>)
    \o DiskAlerts(metrics.disk, th)

check_thresholds(metrics, th) ==
    (IF Exceeds(metrics.cpu_percent, th["cpu_percent"])
     THEN <<Alert("cpu", "", metrics.cpu_percent, th["cpu_percent"])>> ELSE <<>>)
    \o (IF Exceeds(metrics.memory.percent, th["memory_percent"])
        THEN <<Alert("memory", "", metrics.memory.percent, th["memory_percent"])>> ELSE <<>>)
    \o DiskAlerts(metrics.disk, th)
    \o (IF Exceeds(metrics.process_count, th["max_processes"])
        THEN <<Alert("process", "", metrics.process_count, th["max_processes"])>> ELSE <<>>)

(***************************************************************************)
(* generate_report.  The report is the text of its f-strings, line by      *)
(* line; now is the reading datetime.now() returns.                        *)
(***************************************************************************)
\* strftime('%Y-%m-%d %H:%M:%S'): the reading cut to whole seconds
strftime(now) == now \div TicksPerSecond

RECURSIVE DiskLines(_)
DiskLines(disk) ==
    IF disk = <<>> THEN <<>>
    ELSE <<[mount |-> Head(disk).mount, percent |-> Head(disk).percent,
            used |-> Head(disk).used, total |-> Head(disk).total]>>
         \o DiskLines(Tail(disk))

RECURSIVE ProcessLines(_)
ProcessLines(procs) ==
    IF procs = <<>> THEN <<>>
    ELSE <<[pid |-> Head(procs).pid, name |-> Head(procs).name,
            cpu |-> OrZero(Head(procs).cpu_percent),
            memory |-> OrZero(Head(procs).memory_percent)]>>
         \o ProcessLines(Tail(procs))

\* A header that prints the clock reading uncut
TimestampLineUncut(now) == now

\* The header line of the report
TimestampLine(now) == strftime(now)

generate_report(metrics, now) ==
    [timestamp |-> TimestampLine(now),
     cpu |-> metrics.cpu_percent,
     memory |-> [percent |-> metrics.memory.percent, used |-> metrics.memory.used,
                 total |-> metrics.memory.total],
     disk |-> DiskLines(metrics.disk),
     process_count |-> metrics.process_count,
     top |-> ProcessLines(metrics.top_processes)]

(***************************************************************************)
(* The program: main(), monitor_once and monitor_continuous.               *)
(*                                                                         *)
(* pc is the place the one thread of control has reached:                  *)
(*   "main"      main() entered, nothing constructed yet                   *)
(*   "start"     monitor_continuous entered, before its try block          *)
(*   "collect"   monitor_once about to build metrics                       *)
(*   "check"     metrics built, check_thresholds about to run              *)
(*   "dispatch"  at the head of 'for alert in alerts', before alert i      *)
(*   "print"     inside send_alert for alert i, logged and not yet printed *)
(*   "returned"  monitor_once has returned to its caller                   *)
(*   "sleep"     inside time.sleep(interval)                               *)
(*   "handler"   inside 'except KeyboardInterrupt'                         *)
(*   "exited"    the process has ended                                     *)
(* logged and printed are what send_alert has written to the log and to    *)
(* the console since the current iteration began.  cancelAt is where the   *)
(* first interrupt found the program ("" while none has arrived), uncaught *)
(* the exception that ended the process ("" when none did).  started and   *)
(* completed count the calls of monitor_once and its returns; cpuBreaches  *)
(* counts the snapshots whose CPU value was above its threshold and        *)
(* cpuAlerts the CPU alerts written to the log.                            *)
(***************************************************************************)
VARIABLES pc, args, configFile, thresholds, metrics, alerts, i, logged, printed,
          report, reportPrinted, heartbeat, stopNotice, cancelAt, uncaught,
          started, completed, cpuBreaches, cpuAlerts,
          diskCall, topCall, reportCall

loopVars == <<pc, args, configFile, thresholds, metrics, alerts, i, logged, printed,
              report, reportPrinted, heartbeat, stopNotice, cancelAt, uncaught,
              started, completed, cpuBreaches, cpuAlerts>>

vars == <<loopVars, diskCall, topCall, reportCall>>

NoMetrics == [none |-> TRUE]
NoReport == [none |-> TRUE]
NoCall == [none |-> TRUE]

Args == [once : BOOLEAN, report : BOOLEAN]

\* main(): 'if args.once or args.report' runs one cycle, else the loop
SingleCycle == args.once \/ args.report
Continuous == ~SingleCycle

CpuReadings == {80, 81}
ProcessCounts == {300, 301}

ProcTableSamples ==
    {<<ProcEntry(1, [err |-> "AccessDenied"])>>,
     <<ProcEntry(1, [err |-> "", cpu_percent |-> NoneVal]),
       ProcEntry(2, [err |-> "", cpu_percent |-> 2])>>}

\* The places the try block of monitor_continuous covers
TryBlock == {"collect", "check", "dispatch", "print", "returned", "sleep"}

\* The places of a single-cycle run after construction
OnceBlock == {"collect", "check", "dispatch", "print", "returned"}

Init ==
    /\ pc = "main"
    /\ args \in Args
    /\ configFile \in ConfigFiles
    /\ thresholds = EmptyDict
    /\ metrics = NoMetrics
    /\ alerts = <<>>
    /\ i = 0
    /\ logged = <<>>
    /\ printed = <<>>
    /\ report = NoReport
    /\ reportPrinted = FALSE
    /\ heartbeat = FALSE
    /\ stopNotice = FALSE
    /\ cancelAt = ""
    /\ uncaught = ""
    /\ started = 0
    /\ completed = 0
    /\ cpuBreaches = 0
    /\ cpuAlerts = 0
    /\ diskCall = NoCall
    /\ topCall = NoCall
    /\ reportCall = NoCall

pureVars == <<diskCall, topCall, reportCall>>

\* main(): SystemHealthMonitor() and the choice of the run mode
Main ==
    /\ pc = "main"
    /\ LET loaded == LoadThresholds(configFile)
       IN  IF loaded.raised # ""
           THEN /\ uncaught' = loaded.raised
                /\ pc' = "exited"
                /\ UNCHANGED thresholds
           ELSE /\ thresholds' = loaded.thresholds
                /\ pc' = IF SingleCycle THEN "collect" ELSE "start"
                /\ UNCHANGED uncaught
    /\ UNCHANGED <<args, configFile, metrics, alerts, i, logged, printed, report,
                   reportPrinted, heartbeat, stopNotice, cancelAt, started, completed,
                   cpuBreaches, cpuAlerts, pureVars>>

\* monitor_continuous: the two log lines before the try block, then into the loop
StartContinuous ==
    /\ pc = "start"
    /\ pc' = "collect"
    /\ UNCHANGED <<args, configFile, thresholds, metrics, alerts, i, logged, printed,
                   report, reportPrinted, heartbeat, stopNotice, cancelAt, uncaught,
                   started, completed, cpuBreaches, cpuAlerts, pureVars>>

\* monitor_once: metrics = {...}.  An exception of a collector is caught nowhere.
Collect ==
    /\ pc = "collect"
    /\ \E cpu \in CpuReadings, memory \in MemoryReadings,
          partitions \in SeqsUpTo(Partitions, MaxMounts),
          count \in ProcessCounts, table \in ProcTableSamples :
          LET disk == get_disk_usage(partitions)
          IN  IF disk.raised # ""
              THEN /\ uncaught' = disk.raised
                   /\ pc' = "exited"
                   /\ UNCHANGED <<metrics, cpuBreaches>>
              ELSE /\ metrics' = [cpu_percent |-> cpu,
                                  memory |-> get_memory_usage(memory),
                                  disk |-> disk.disk_info,
                                  process_count |-> count,
                                  top_processes |-> get_top_processes(table, DefaultLimit)]
                   /\ cpuBreaches' = cpuBreaches +
                                     (IF cpu > thresholds["cpu_percent"] THEN 1 ELSE 0)
                   /\ pc' = "check"
                   /\ UNCHANGED uncaught
    /\ started' = started + 1
    /\ UNCHANGED <<args, configFile, thresholds, alerts, i, logged, printed, report,
                   reportPrinted, heartbeat, stopNotice, cancelAt, completed,
                   cpuAlerts, pureVars>>

\* monitor_once: alerts = self.check_thresholds(metrics)
Check ==
    /\ pc = "check"
    /\ alerts' = check_thresholds(metrics, thresholds)
    /\ i' = 1
    /\ pc' = "dispatch"
    /\ UNCHANGED <<args, configFile, thresholds, metrics, logged, printed, report,
                   reportPrinted, heartbeat, stopNotice, cancelAt, uncaught, started,
                   completed, cpuBreaches, cpuAlerts, pureVars>>

\* A send_alert that writes a CPU alert to the log once per run only
AlertLogOncePerRun ==
    /\ pc = "dispatch"
    /\ i <= Len(alerts)
    /\ IF alerts[i].check = "cpu" /\ cpuAlerts > 0
       THEN UNCHANGED <<logged, cpuAlerts>>
       ELSE /\ logged' = Append(logged, alerts[i])
            /\ cpuAlerts' = cpuAlerts + (IF alerts[i].check = "cpu" THEN 1 ELSE 0)
    /\ pc' = "print"
    /\ UNCHANGED <<args, configFile, thresholds, metrics, alerts, i, printed, report,
                   reportPrinted, heartbeat, stopNotice, cancelAt, uncaught, started,
                   completed, cpuBreaches, pureVars>>

\* send_alert, first half: self.logger.warning(alert_msg)
AlertLog ==
    /\ pc = "dispatch"
    /\ i <= Len(alerts)
    /\ logged' = Append(logged, alerts[i])
    /\ cpuAlerts' = cpuAlerts + (IF alerts[i].check = "cpu" THEN 1 ELSE 0)
    /\ pc' = "print"
    /\ UNCHANGED <<args, configFile, thresholds, metrics, alerts, i, printed, report,
                   reportPrinted, heartbeat, stopNotice, cancelAt, uncaught, started,
                   completed, cpuBreaches, pureVars>>

\* send_alert, second half: print(alert_msg); then the next alert
AlertPrint ==
    /\ pc = "print"
    /\ printed' = Append(printed, alerts[i])
    /\ i' = i + 1
    /\ pc' = "dispatch"
    /\ UNCHANGED <<args, configFile, thresholds, metrics, alerts, logged, report,
                   reportPrinted, heartbeat, stopNotice, cancelAt, uncaught, started,
                   completed, cpuBreaches, cpuAlerts, pureVars>>

\* monitor_once after the last alert: the report, the log line, the return
Report ==
    /\ pc = "dispatch"
    /\ i > Len(alerts)
    /\ \E now \in 0..MaxTick : report' = generate_report(metrics, now)
    /\ completed' = completed + 1
    /\ pc' = "returned"
    /\ UNCHANGED <<args, configFile, thresholds, metrics, alerts, i, logged, printed,
                   reportPrinted, heartbeat, stopNotice, cancelAt, uncaught, started,
                   cpuBreaches, cpuAlerts, pureVars>>

\* main(), single cycle: 'if args.report: print(report)', and the end of main()
AfterOnce ==
    /\ pc = "returned"
    /\ SingleCycle
    /\ reportPrinted' = args.report
    /\ pc' = "exited"
    /\ UNCHANGED <<args, configFile, thresholds, metrics, alerts, i, logged, printed,
                   report, heartbeat, stopNotice, cancelAt, uncaught, started, completed,
                   cpuBreaches, cpuAlerts, pureVars>>

\* A loop that prints the heartbeat whatever the cycle raised
AfterCycleAlwaysHeartbeat ==
    /\ pc = "returned"
    /\ Continuous
    /\ heartbeat' = TRUE
    /\ pc' = "sleep"
    /\ UNCHANGED <<args, configFile, thresholds, metrics, alerts, i, logged, printed,
                   report, reportPrinted, stopNotice, cancelAt, uncaught, started,
                   completed, cpuBreaches, cpuAlerts, pureVars>>

\* monitor_continuous: 'if not alerts: print(healthy)', then time.sleep(interval)
AfterCycle ==
    /\ pc = "returned"
    /\ Continuous
    /\ heartbeat' = (alerts = <<>>)
    /\ pc' = "sleep"
    /\ UNCHANGED <<args, configFile, thresholds, metrics, alerts, i, logged, printed,
                   report, reportPrinted, stopNotice, cancelAt, uncaught, started,
                   completed, cpuBreaches, cpuAlerts, pureVars>>

\* time.sleep returns and 'while True' starts the next iteration
Wake ==
    /\ pc = "sleep"
    /\ started < MaxCycles
    /\ metrics' = NoMetrics
    /\ alerts' = <<>>
    /\ i' = 0
    /\ logged' = <<>>
    /\ printed' = <<>>
    /\ report' = NoReport
    /\ heartbeat' = FALSE
    /\ pc' = "collect"
    /\ UNCHANGED <<args, configFile, thresholds, reportPrinted, stopNotice, cancelAt,
                   uncaught, started, completed, cpuBreaches, cpuAlerts, pureVars>>

\* KeyboardInterrupt raised inside the try block of monitor_continuous
Interrupt ==
    /\ Continuous
    /\ pc \in TryBlock
    /\ cancelAt' = pc
    /\ pc' = "handler"
    /\ UNCHANGED <<args, configFile, thresholds, metrics, alerts, i, logged, printed,
                   report, reportPrinted, heartbeat, stopNotice, uncaught, started,
                   completed, cpuBreaches, cpuAlerts, pureVars>>

\* KeyboardInterrupt raised where no handler covers it: it ends the process
InterruptUncaught ==
    /\ \/ pc = "main"
       \/ Continuous /\ pc \in {"start", "handler"}
       \/ SingleCycle /\ pc \in OnceBlock
    /\ cancelAt' = IF cancelAt = "" THEN pc ELSE cancelAt
    /\ uncaught' = "KeyboardInterrupt"
    /\ pc' = "exited"
    /\ UNCHANGED <<args, configFile, thresholds, metrics, alerts, i, logged, printed,
                   report, reportPrinted, heartbeat, stopNotice, started, completed,
                   cpuBreaches, cpuAlerts, pureVars>>

\* A handler that sends what is left of the interrupted cycle's alerts before it stops
HandleInterruptDrain ==
    /\ pc = "handler"
    /\ logged' = alerts
    /\ printed' = alerts
    /\ stopNotice' = TRUE
    /\ pc' = "exited"
    /\ UNCHANGED <<args, configFile, thresholds, metrics, alerts, i,
                   report, reportPrinted, heartbeat, cancelAt, uncaught, started,
                   completed, cpuBreaches, cpuAlerts, pureVars>>

\* except KeyboardInterrupt: the stop notice; monitor_continuous and main() return
HandleInterrupt ==
    /\ pc = "handler"
    /\ stopNotice' = TRUE
    /\ pc' = "exited"
    /\ UNCHANGED <<args, configFile, thresholds, metrics, alerts, i, logged, printed,
                   report, reportPrinted, heartbeat, cancelAt, uncaught, started,
                   completed, cpuBreaches, cpuAlerts, pureVars>>

Next ==
    \/ Main
    \/ StartContinuous
    \/ Collect
    \/ Check
    \/ AlertLog
    \/ AlertPrint
    \/ Report
    \/ AfterOnce
    \/ AfterCycle
    \/ Wake
    \/ Interrupt
    \/ InterruptUncaught
    \/ HandleInterrupt

Spec == Init /\ [][Next]_vars

\* The exit status of the process: 0 unless an exception ended it
ExitStatus == IF uncaught = "" THEN 0 ELSE 1

(***************************************************************************)
(* The collectors and the formatter called on their own: get_disk_usage on *)
(* every partition list, get_top_processes on every process table and      *)
(* limit, generate_report twice on one snapshot at two clock readings.     *)
(***************************************************************************)
LoopIdle ==
    /\ pc = "exited"
    /\ args = [once |-> TRUE, report |-> FALSE]
    /\ configFile = [exists |-> FALSE]
    /\ thresholds = DefaultThresholds
    /\ metrics = NoMetrics
    /\ alerts = <<>>
    /\ i = 0
    /\ logged = <<>>
    /\ printed = <<>>
    /\ report = NoReport
    /\ reportPrinted = FALSE
    /\ heartbeat = FALSE
    /\ stopNotice = FALSE
    /\ cancelAt = ""
    /\ uncaught = ""
    /\ started = 0
    /\ completed = 0
    /\ cpuBreaches = 0
    /\ cpuAlerts = 0

InitDisk ==
    /\ LoopIdle
    /\ diskCall \in {[done |-> FALSE, partitions |-> p] :
                       p \in SeqsUpTo(Partitions, MaxMounts)}
    /\ topCall = NoCall
    /\ reportCall = NoCall

CallDisk ==
    /\ diskCall # NoCall
    /\ ~diskCall.done
    /\ diskCall' = [done |-> TRUE, partitions |-> diskCall.partitions,
                    result |-> get_disk_usage(diskCall.partitions)]
    /\ UNCHANGED <<loopVars, topCall, reportCall>>

SpecDisk == InitDisk /\ [][CallDisk]_vars

InitTop ==
    /\ LoopIdle
    /\ diskCall = NoCall
    /\ topCall \in {[done |-> FALSE, table |-> t, limit |-> n] :
                      t \in ProcTablesUpTo(MaxProcs), n \in 0..MaxLimit}
    /\ reportCall = NoCall

CallTop ==
    /\ topCall # NoCall
    /\ ~topCall.done
    /\ topCall' = [done |-> TRUE, table |-> topCall.table, limit |-> topCall.limit,
                   result |-> get_top_processes(topCall.table, topCall.limit)]
    /\ UNCHANGED <<loopVars, diskCall, reportCall>>

SpecTop == InitTop /\ [][CallTop]_vars

\* Snapshots as monitor_once builds them
Snapshots ==
    {[cpu_percent |-> cpu, memory |-> get_memory_usage(memory),
      disk |-> get_disk_usage(partitions).disk_info, process_count |-> count,
      top_processes |-> get_top_processes(table, DefaultLimit)] :
        cpu \in CpuReadings, memory \in MemoryReadings,
        partitions \in {p \in SeqsUpTo(Partitions, MaxMounts) : get_disk_usage(p).raised = ""},
        count \in ProcessCounts, table \in ProcTableSamples}

InitReport ==
    /\ LoopIdle
    /\ diskCall = NoCall
    /\ topCall = NoCall
    /\ reportCall \in {[done |-> FALSE, metrics |-> m, nowA |-> a, nowB |-> b] :
                         m \in Snapshots, a \in 0..MaxTick, b \in 0..MaxTick}

CallReport ==
    /\ reportCall # NoCall
    /\ ~reportCall.done
    /\ reportCall' = [done |-> TRUE, metrics |-> reportCall.metrics,
                      nowA |-> reportCall.nowA, nowB |-> reportCall.nowB,
                      reportA |-> generate_report(reportCall.metrics, reportCall.nowA),
                      reportB |-> generate_report(reportCall.metrics, reportCall.nowB)]
    /\ UNCHANGED <<loopVars, diskCall, topCall>>

SpecReport == InitReport /\ [][CallReport]_vars

(***************************************************************************)
(* Properties.                                                             *)
(***************************************************************************)
\* check_thresholds has returned in the current iteration
Evaluated == i >= 1

\* The places of a cycle in progress: monitor_once entered and not yet returned
MidCycle == {"collect", "check", "dispatch", "print"}

\* The alerts of one check (and, for the disk check, one mount) in alerts
AlertsOf(check, mount) ==
    {k \in 1..Len(alerts) : alerts[k].check = check /\ alerts[k].mount = mount}

One(condition) == IF condition THEN 1 ELSE 0

\* The number of thresholds the snapshot exceeds
BreachCount ==
    One(metrics.cpu_percent > thresholds["cpu_percent"])
    + One(metrics.memory.percent > thresholds["memory_percent"])
    + Cardinality({d \in 1..Len(metrics.disk) :
                     metrics.disk[d].percent > thresholds["disk_percent"]})
    + One(metrics.process_count > thresholds["max_processes"])

\* The place of a mount in the snapshot's disk dict
MountIndex(mount) == CHOOSE d \in 1..Len(metrics.disk) : metrics.disk[d].mount = mount

CheckRank(check) ==
    IF check = "cpu" THEN 1 ELSE IF check = "memory" THEN 2
    ELSE IF check = "disk" THEN 3 ELSE 4

\* C1: check_thresholds returns an alert for CPU, memory, a disk mount or the
\* process count exactly when the snapshot's value is strictly above the
\* threshold (one alert, none at equality), each mount judged on its own
\* percent, and it returns no other alert.
C1_AlertIffAboveThreshold ==
    Evaluated =>
        /\ Cardinality(AlertsOf("cpu", "")) =
               One(metrics.cpu_percent > thresholds["cpu_percent"])
        /\ Cardinality(AlertsOf("memory", "")) =
               One(metrics.memory.percent > thresholds["memory_percent"])
        /\ Cardinality(AlertsOf("process", "")) =
               One(metrics.process_count > thresholds["max_processes"])
        /\ \A d \in 1..Len(metrics.disk) :
               Cardinality(AlertsOf("disk", metrics.disk[d].mount)) =
                   One(metrics.disk[d].percent > thresholds["disk_percent"])
        /\ \A k \in 1..Len(alerts) :
               \/ alerts[k].check \in {"cpu", "memory", "process"} /\ alerts[k].mount = ""
               \/ /\ alerts[k].check = "disk"
                  /\ \E d \in 1..Len(metrics.disk) : metrics.disk[d].mount = alerts[k].mount

\* A CPU value equal to its threshold raised no alert, while of two mounts one
\* above the disk threshold alerted and the other, at the threshold, did not.
C1_Witness ==
    /\ Evaluated
    /\ metrics.cpu_percent = thresholds["cpu_percent"]
    /\ Len(metrics.disk) = 2
    /\ metrics.disk[1].percent = thresholds["disk_percent"]
    /\ metrics.disk[2].percent > thresholds["disk_percent"]
    /\ Len(alerts) = 1
    /\ alerts[1].mount = metrics.disk[2].mount

\* C2: in the alerts check_thresholds returns, CPU comes before memory, memory
\* before the disk alerts, these in the snapshot's mount order, and all before
\* the process count; send_alert logs and prints them in that order.
C2_AlertOrder ==
    Evaluated =>
        /\ \A a, b \in 1..Len(alerts) :
               a < b =>
                   /\ CheckRank(alerts[a].check) <= CheckRank(alerts[b].check)
                   /\ (alerts[a].check = "disk" /\ alerts[b].check = "disk"
                          => MountIndex(alerts[a].mount) < MountIndex(alerts[b].mount))
                   /\ (alerts[a].check = alerts[b].check => alerts[a].check = "disk")
        /\ IsPrefix(logged, alerts)
        /\ IsPrefix(printed, logged)

\* All four checks fired on a snapshot of two mounts and every alert was dispatched.
C2_Witness ==
    /\ pc = "returned"
    /\ Len(alerts) = 5
    /\ printed = alerts
    /\ alerts[3].mount = "/data"
    /\ alerts[4].mount = "/"

C6_StopsOnlyOnCancel ==
    (Continuous /\ pc = "exited" /\ started >= 1) => cancelAt # ""

\* The thresholds a configuration file supplies
Supplied ==
    IF configFile.exists /\ configFile.json = "object"
    THEN DictGet(configFile.config, "thresholds", EmptyDict)
    ELSE EmptyDict

\* The construction of the monitor has failed
StartupFailure == pc = "exited" /\ started = 0 /\ uncaught \notin {"", "KeyboardInterrupt"}

\* C7: from construction on, through every cycle, each of the four thresholds
\* is the supplied value if the configuration names its key and else its
\* default (80.0, 85.0, 90.0, 300); a missing file or a missing thresholds
\* object leaves the four defaults and is no startup failure.
C7_ThresholdsOverlayDefaults ==
    /\ (pc # "main" /\ ~StartupFailure /\ cancelAt # "main") =>
           /\ DOMAIN thresholds = Keys
           /\ \A k \in Keys : k \in DOMAIN Supplied => thresholds[k] = Supplied[k]
           /\ "cpu_percent" \notin DOMAIN Supplied => thresholds["cpu_percent"] = 80
           /\ "memory_percent" \notin DOMAIN Supplied => thresholds["memory_percent"] = 85
           /\ "disk_percent" \notin DOMAIN Supplied => thresholds["disk_percent"] = 90
           /\ "max_processes" \notin DOMAIN Supplied => thresholds["max_processes"] = 300
    /\ (~configFile.exists \/ (configFile.json = "object" /\ Supplied = EmptyDict)) =>
           ~StartupFailure

\* A file that names cpu_percent alone; the run is in its second wait.
C7_Witness ==
    /\ pc = "sleep"
    /\ started = 2
    /\ DOMAIN Supplied = {"cpu_percent"}
    /\ thresholds["cpu_percent"] = 81
    /\ thresholds["disk_percent"] = 90

\* C8 as stated: get_disk_usage returns for every partition list, without
\* raising, and every partition whose usage read succeeded is a key of the map.
C8_NeverRaises ==
    (diskCall # NoCall /\ diskCall.done) =>
        /\ diskCall.result.raised = ""
        /\ \A k \in 1..Len(diskCall.partitions) :
               diskCall.partitions[k].usage.err = "" =>
                   \E d \in 1..Len(diskCall.result.disk_info) :
                       diskCall.result.disk_info[d].mount = diskCall.partitions[k].mountpoint

\* The processes of the table whose info could be read
ReadPids == {k \in 1..Len(topCall.table) : topCall.table[k].err = ""}

\* The sort key of the process with pid k
KeyOfPid(k) ==
    IF topCall.table[k].info.cpu_percent = NoneVal THEN 0
    ELSE topCall.table[k].info.cpu_percent

\* C9: get_top_processes returns at most limit entries, each the info of a
\* different successfully read process, in descending order of cpu_percent
\* with None counted as 0, entries of equal key in enumeration order, and
\* every read process left out has a key no greater than any returned; it
\* leaves none out while fewer than limit are returned.
C9_TopProcesses ==
    (topCall # NoCall /\ topCall.done) =>
        LET top == topCall.result
            pids == {top[k].pid : k \in 1..Len(top)}
        IN  /\ Len(top) <= topCall.limit
            /\ pids \subseteq ReadPids
            /\ Cardinality(pids) = Len(top)
            /\ \A k \in 1..Len(top) : top[k] = topCall.table[top[k].pid].info
            /\ \A a, b \in 1..Len(top) :
                   a < b => /\ KeyOfPid(top[a].pid) >= KeyOfPid(top[b].pid)
                            /\ (KeyOfPid(top[a].pid) = KeyOfPid(top[b].pid)
                                   => top[a].pid < top[b].pid)
            /\ \A out \in ReadPids \ pids :
                   /\ Len(top) = topCall.limit
                   /\ \A in \in pids : KeyOfPid(out) <= KeyOfPid(in)

\* Three readable processes, the first with no CPU reading, the second at 0, the
\* third busy; limit 2 returns the busy one and then the first.
C9_Witness ==
    /\ topCall # NoCall
    /\ topCall.done
    /\ topCall.limit = 2
    /\ Len(topCall.table) = 3
    /\ ReadPids = {1, 2, 3}
    /\ topCall.table[1].info.cpu_percent = NoneVal
    /\ topCall.table[2].info.cpu_percent = 0
    /\ topCall.table[3].info.cpu_percent = 2
    /\ Len(topCall.result) = 2
    /\ topCall.result[1].pid = 3
    /\ topCall.result[2].pid = 1

====
